---- MODULE Spec2Model ----
(***************************************************************************)
(* libstyxe: the 9P2000 / 9P2000.e message parser (styxe::Parser), its     *)
(* negotiation state and the frame validation of include/styxe/9p2000.hpp  *)
(* and src/9p2000.cpp, and the writers that build a message in a buffer:   *)
(* TypedWriter and DirListingWriter.                                       *)
(*                                                                         *)
(* Spec is the parser reading a buffer it is given; WriterSpec is a        *)
(* message being built, finalised and read back by the parser; StatSpec is *)
(* two Stat values being compared.                                         *)
(*                                                                         *)
(* size_type is a 32-bit unsigned integer.  A 32-bit value is kept as the  *)
(* pair <<hi, lo>> of its 16-bit halves, so that 2^32 - 1 and the wrap of  *)
(* the unsigned arithmetic are exact.                                      *)
(***************************************************************************)
EXTENDS Integers, Sequences, FiniteSets, TLC

VARIABLES
    maxMassageSize,             \* Parser::_maxMassageSize (configured msize)
    maxNegotiatedMessageSize,   \* Parser::_maxNegotiatedMessageSize
    reader,                     \* the caller's ByteReader: [buf, pos]
    header,                     \* the MessageHeader the caller holds
    parseCalls,                 \* parse calls made on the cursor so far
    call,                       \* the last call of the size setter or of a parse function
    negotiatedVersion,          \* Parser::_negotiatedVersion
    buffer,                     \* the bytes of the ByteWriter messages are built in
    writer,                     \* the TypedWriter of the message being built
    listing,                    \* the DirListingWriter and the entries fed to it
    compared                    \* the last two Stat values compared with operator ==

\* the negotiation state of the parser
negotiation == <<maxMassageSize, maxNegotiatedMessageSize, negotiatedVersion>>

\* what the writers own
building == <<buffer, writer, listing>>

vars == <<maxMassageSize, maxNegotiatedMessageSize, reader, header, parseCalls, call,
          negotiatedVersion, buffer, writer, listing, compared>>

----------------------------------------------------------------------------
(* Bounds of the model                                                     *)

\* payload bytes following a 7-byte header in the enumerated short frames
MaxPayload == 5
\* parse calls (header or payload) the caller makes on one cursor
MaxParseCalls == 2
\* the qid counts of the enumerated RWalk frames go up to WalkCap + MaxWalkExtra
MaxWalkExtra == 1

----------------------------------------------------------------------------
(* 32-bit unsigned arithmetic on <<hi, lo>>                                *)

\* 2^16: one half of a 32-bit size_type
HalfWord == 65536

U32(n) == <<n \div HalfWord, n % HalfWord>>

U32Max == <<HalfWord - 1, HalfWord - 1>>

U32Lt(a, b) == a[1] < b[1] \/ (a[1] = b[1] /\ a[2] < b[2])

U32Le(a, b) == a = b \/ U32Lt(a, b)

\* a + b modulo 2^32
U32Add(a, b) ==
    LET lo == a[2] + b[2]
        hi == a[1] + b[1] + (lo \div HalfWord)
    IN  <<hi % HalfWord, lo % HalfWord>>

\* a - b modulo 2^32
U32Sub(a, b) ==
    LET lo == a[2] - b[2]
        borrow == IF lo < 0 THEN 1 ELSE 0
        hi == a[1] - b[1] - borrow
    IN  <<hi % HalfWord, lo % HalfWord>>

\* std::min on size_type
U32Min(a, b) == IF U32Lt(b, a) THEN b ELSE a

----------------------------------------------------------------------------
(* Wire constants                                                          *)

\* enum class MessageType : Solace::byte
MessageType ==
    [ beginSupportedMessageCode |-> 100,
      TVersion |-> 100, RVersion |-> 101,
      TAuth    |-> 102, RAuth    |-> 103,
      TAttach  |-> 104, RAttach  |-> 105,
      TError   |-> 106, RError   |-> 107,
      TFlush   |-> 108, RFlush   |-> 109,
      TWalk    |-> 110, RWalk    |-> 111,
      TOpen    |-> 112, ROpen    |-> 113,
      TCreate  |-> 114, RCreate  |-> 115,
      TRead    |-> 116, RRead    |-> 117,
      TWrite   |-> 118, RWrite   |-> 119,
      TClunk   |-> 120, RClunk   |-> 121,
      TRemove  |-> 122, RRemove  |-> 123,
      TStat    |-> 124, RStat    |-> 125,
      TWStat   |-> 126, RWStat   |-> 127,
      TSession |-> 150, RSession |-> 151,
      TSRead   |-> 152, RSRead   |-> 153,
      TSWrite  |-> 154, RSWrite  |-> 155,
      endSupportedMessageCode |-> 156 ]

\* headerSize(): sizeof(messageSize) + sizeof(type) + sizeof(tag) = 4 + 1 + 2
headerSize == 7

\* Qid qids[16] of Response::Walk
WalkCap == 16

\* kMaxMesssageSize = 8*1024
kMaxMesssageSize == 8192

\* enum class CannedError, and the outcomes that are not a canned error
CannedError ==
    [ IllFormedHeader               |-> "IllFormedHeader",
      IllFormedHeader_FrameTooShort |-> "IllFormedHeader_FrameTooShort",
      IllFormedHeader_TooBig        |-> "IllFormedHeader_TooBig",
      UnsupportedMessageType        |-> "UnsupportedMessageType",
      NotEnoughData                 |-> "NotEnoughData",
      MoreThenExpectedData          |-> "MoreThenExpectedData" ]

Ok == "Ok"

----------------------------------------------------------------------------
(* Solace::ByteReader over a caller buffer, and the reads of the Decoder   *)

Byte == 0..255

\* ByteReader{wrapMemory(data, size)}
WrapMemory(data) == [buf |-> data, pos |-> 0]

\* ByteReader::remaining()
Remaining(r) == Len(r.buf) - r.pos

\* little-endian value of two bytes
LE16(bs) == bs[1] + 256 * bs[2]

\* n raw bytes, or a failure that leaves the cursor where it was
ReadBytes(r, n) ==
    IF Remaining(r) < n
    THEN [ok |-> FALSE, r |-> r, val |-> <<>>]
    ELSE [ok |-> TRUE,
          r  |-> [r EXCEPT !.pos = @ + n],
          val |-> SubSeq(r.buf, r.pos + 1, r.pos + n)]

\* the value of one byte read
AsU8(b) == [b EXCEPT !.val = IF b.ok THEN b.val[1] ELSE 0]

\* the value of two bytes read, least significant first
AsU16(b) == [b EXCEPT !.val = IF b.ok THEN LE16(b.val) ELSE 0]

\* the value of four bytes read, least significant first, as <<hi, lo>>
AsU32(b) ==
    [b EXCEPT !.val = IF b.ok
                      THEN <<LE16(SubSeq(b.val, 3, 4)), LE16(SubSeq(b.val, 1, 2))>>
                      ELSE <<0, 0>>]

\* the value of eight bytes read, as four 16-bit parts, most significant first
AsU64(b) ==
    [b EXCEPT !.val = IF b.ok
                      THEN <<LE16(SubSeq(b.val, 7, 8)), LE16(SubSeq(b.val, 5, 6)),
                             LE16(SubSeq(b.val, 3, 4)), LE16(SubSeq(b.val, 1, 2))>>
                      ELSE <<0, 0, 0, 0>>]

\* decoder >> uint8
ReadU8(r) == AsU8(ReadBytes(r, 1))

\* decoder >> uint16
ReadU16(r) == AsU16(ReadBytes(r, 2))

\* decoder >> uint32
ReadU32(r) == AsU32(ReadBytes(r, 4))

\* decoder >> uint64
ReadU64(r) == AsU64(ReadBytes(r, 8))

----------------------------------------------------------------------------
(* MessageHeader                                                           *)

\* struct MessageHeader { messageSize, type, tag }
MessageHeader(messageSize, type, tag) ==
    [messageSize |-> messageSize, type |-> type, tag |-> tag]

\* what stands for the header where a call returned an Error and no header
NoHeader == MessageHeader(<<0, 0>>, 0, 0)

\* MessageHeader::payloadSize(): messageSize - headerSize() in size_type
\* a variant that gives 0 for a messageSize below headerSize()
payloadSizeSaturating(h) ==
    IF U32Lt(h.messageSize, U32(headerSize)) THEN U32(0)
    ELSE U32Sub(h.messageSize, U32(headerSize))

payloadSize(h) == U32Sub(h.messageSize, U32(headerSize))

\* makeHeaderWithPayload: { headerSize() + payloadSize, type, tag }
makeHeaderWithPayload(type, tag, payload) ==
    MessageHeader(U32Add(U32(headerSize), payload), type, tag)

----------------------------------------------------------------------------
(* Parser::parseMessageHeader                                              *)

\* a variant that checks for the size field alone
HeaderMissingSizeField(dataAvailable) == dataAvailable < 4

\* dataAvailable < mandatoryHeaderSize
HeaderMissing(dataAvailable) == dataAvailable < headerSize

\* a variant that compares with the width of the size field
FrameTooShortOfSizeField(messageSize) == U32Lt(messageSize, U32(4))

\* header.messageSize < mandatoryHeaderSize
FrameTooShort(messageSize) == U32Lt(messageSize, U32(headerSize))

\* a variant that also refuses a frame of exactly the negotiated size
FrameTooBigOrEqual(messageSize, negotiated) == U32Le(negotiated, messageSize)

\* header.messageSize > maxNegotiatedMessageSize()
FrameTooBig(messageSize, negotiated) == U32Lt(negotiated, messageSize)

\* !(type < _beginSupportedMessageCode || type >= _endSupportedMessageCode)
SupportedMessageCode(t) ==
    ~(t < MessageType.beginSupportedMessageCode \/ t >= MessageType.endSupportedMessageCode)

\* The result of a parse call: the status (Ok or an error), the header it
\* returns and the cursor it leaves.
HeaderResult(status, h, r) == [status |-> status, header |-> h, reader |-> r]

\* a variant that returns without reading the tag
parseMessageHeaderNoTag(src, negotiated) ==
    IF HeaderMissing(Remaining(src))
    THEN HeaderResult(CannedError.IllFormedHeader, NoHeader, src)
    ELSE
    LET size == ReadU32(src) IN
    IF FrameTooShort(size.val)
    THEN HeaderResult(CannedError.IllFormedHeader_FrameTooShort, NoHeader, size.r)
    ELSE IF FrameTooBig(size.val, negotiated)
    THEN HeaderResult(CannedError.IllFormedHeader_TooBig, NoHeader, size.r)
    ELSE
    LET messageBytecode == ReadU8(size.r) IN
    IF ~SupportedMessageCode(messageBytecode.val)
    THEN HeaderResult(CannedError.UnsupportedMessageType, NoHeader, messageBytecode.r)
    ELSE HeaderResult(Ok, MessageHeader(size.val, messageBytecode.val, 0), messageBytecode.r)

\* a variant that wants the declared payload to be in the buffer already
parseMessageHeaderWithPayload(src, negotiated) ==
    IF HeaderMissing(Remaining(src))
    THEN HeaderResult(CannedError.IllFormedHeader, NoHeader, src)
    ELSE
    LET size == ReadU32(src) IN
    IF FrameTooShort(size.val)
    THEN HeaderResult(CannedError.IllFormedHeader_FrameTooShort, NoHeader, size.r)
    ELSE IF FrameTooBig(size.val, negotiated)
    THEN HeaderResult(CannedError.IllFormedHeader_TooBig, NoHeader, size.r)
    ELSE IF U32Lt(U32(Remaining(src)), size.val)
    THEN HeaderResult(CannedError.NotEnoughData, NoHeader, size.r)
    ELSE
    LET messageBytecode == ReadU8(size.r) IN
    IF ~SupportedMessageCode(messageBytecode.val)
    THEN HeaderResult(CannedError.UnsupportedMessageType, NoHeader, messageBytecode.r)
    ELSE
    LET tag == ReadU16(messageBytecode.r)
    IN  HeaderResult(Ok, MessageHeader(size.val, messageBytecode.val, tag.val), tag.r)

parseMessageHeader(src, negotiated) ==
    IF HeaderMissing(Remaining(src))
    THEN HeaderResult(CannedError.IllFormedHeader, NoHeader, src)
    ELSE
    LET size == ReadU32(src) IN
    IF FrameTooShort(size.val)
    THEN HeaderResult(CannedError.IllFormedHeader_FrameTooShort, NoHeader, size.r)
    ELSE IF FrameTooBig(size.val, negotiated)
    THEN HeaderResult(CannedError.IllFormedHeader_TooBig, NoHeader, size.r)
    ELSE
    LET messageBytecode == ReadU8(size.r) IN
    IF ~SupportedMessageCode(messageBytecode.val)
    THEN HeaderResult(CannedError.UnsupportedMessageType, NoHeader, messageBytecode.r)
    ELSE
    LET tag == ReadU16(messageBytecode.r)
    IN  HeaderResult(Ok, MessageHeader(size.val, messageBytecode.val, tag.val), tag.r)

----------------------------------------------------------------------------
(* Parser::maxNegotiatedMessageSize(newMessageSize)                        *)

\* Solace::assertIndexInRange(index, from, to): passes iff from <= index < to
assertIndexInRange(index, from, to) == ~(U32Le(to, index) \/ U32Lt(index, from))

\* a variant that stores the argument as it comes
setMaxNegotiatedMessageSizeUnchecked(newMessageSize, maxPossible, negotiated) ==
    [raised |-> FALSE, value |-> newMessageSize]

\* The setter: either the assertion raises and the parser is left as it was,
\* or the negotiated size becomes std::min(newMessageSize, maxPossibleMessageSize()).
setMaxNegotiatedMessageSize(newMessageSize, maxPossible, negotiated) ==
    IF assertIndexInRange(newMessageSize, U32(0), U32Add(maxPossible, U32(1)))
    THEN [raised |-> FALSE, value |-> U32Min(newMessageSize, maxPossible)]
    ELSE [raised |-> TRUE,  value |-> negotiated]

----------------------------------------------------------------------------
(* The Decoder's compound reads                                            *)

\* a decoded message: the variant that holds it and its fields in order
Message(kind, fields) == [kind |-> kind, fields |-> fields]

NoMessage == Message("none", <<>>)

\* a read that failed, with the cursor it left
Failed(r) == [ok |-> FALSE, r |-> r, val |-> <<>>]

\* a value put in front of the values read after it
Prepend(v, rest) == [rest EXCEPT !.val = IF rest.ok THEN <<v>> \o @ ELSE <<>>]

\* the bytes of a string whose u16 length n was just read
StringOfLength(n) == IF ~n.ok THEN Failed(n.r) ELSE ReadBytes(n.r, n.val)

\* decoder >> StringView: u16 length, then that many bytes
ReadString(r) == StringOfLength(ReadU16(r))

\* the bytes of a blob whose u32 length n was just read
DataOfLength(n) ==
    IF ~n.ok \/ U32Lt(U32(Remaining(n.r)), n.val) THEN Failed(n.r)
    ELSE ReadBytes(n.r, n.val[2])

\* decoder >> MemoryView: u32 length, then that many bytes
ReadData(r) == DataOfLength(ReadU32(r))

\* Qid: type(u8) version(u32) path(u64)
QidFields == <<"u8", "u32", "u64">>

\* Stat: size type dev qid mode atime mtime length name uid gid muid
StatFields == <<"u16", "u16", "u32">> \o QidFields \o
              <<"u32", "u32", "u32", "u64", "string", "string", "string", "string">>

RECURSIVE ReadStrings(_, _)
\* the strings that follow the string s just read
StringsAfter(count, s) ==
    IF ~s.ok THEN Failed(s.r) ELSE Prepend(s.val, ReadStrings(count, s.r))

\* count strings, one after the other
ReadStrings(count, r) ==
    IF count = 0 THEN [ok |-> TRUE, r |-> r, val |-> <<>>]
    ELSE StringsAfter(count - 1, ReadString(r))

\* the strings of a path whose u16 count n was just read
PathOfCount(n) == IF ~n.ok THEN Failed(n.r) ELSE ReadStrings(n.val, n.r)

\* decoder >> WalkPath: u16 count, then count strings
ReadWalkPath(r) == PathOfCount(ReadU16(r))

\* decoder >> one field of the given wire type.  A Qid or a Stat is read as
\* the sequence of its fields (QidFields, StatFields).
DecodeField(kind, r) ==
    CASE kind = "u8"     -> ReadU8(r)
      [] kind = "u16"    -> ReadU16(r)
      [] kind = "u32"    -> ReadU32(r)
      [] kind = "u64"    -> ReadU64(r)
      [] kind = "string" -> ReadString(r)
      [] kind = "data"   -> ReadData(r)
      [] kind = "path"   -> ReadWalkPath(r)

RECURSIVE DecodeFields(_, _)
\* the reads that follow the read f: none once a read has failed
FieldsAfter(kinds, f) ==
    IF ~f.ok THEN Failed(f.r) ELSE Prepend(f.val, DecodeFields(kinds, f.r))

\* decoder >> a >> b >> ...: the first read that fails ends the chain
DecodeFields(kinds, r) ==
    IF kinds = <<>> THEN [ok |-> TRUE, r |-> r, val |-> <<>>]
    ELSE FieldsAfter(Tail(kinds), DecodeField(Head(kinds), r))

----------------------------------------------------------------------------
(* The per-type payload parsers                                            *)

\* The result of a payload parse: the status, the message, the cursor left,
\* and whether a store past the end of Response::Walk::qids was made.
PayloadResult(status, msg, r, oob) ==
    [status |-> status, msg |-> msg, reader |-> r, oob |-> oob]

\* result.then(OkRespose{fcall}) / result.then(OkRequest(msg)): the message
\* when every read succeeded, the decoder's error otherwise
Then(kind, d) ==
    IF d.ok THEN PayloadResult(Ok, Message(kind, d.val), d.r, FALSE)
    ELSE PayloadResult(CannedError.NotEnoughData, NoMessage, d.r, FALSE)

\* a parser that reads the given fields in order into the variant `kind`
Decoded(kind, kinds, data) == Then(kind, DecodeFields(kinds, data))

parseNoDataResponse(kind, data) == PayloadResult(Ok, Message(kind, <<>>), data, FALSE)

parseErrorResponse(data)   == Decoded("Response::Error",   <<"string">>, data)
parseVersionResponse(data) == Decoded("Response::Version", <<"u32", "string">>, data)
parseAuthResponse(data)    == Decoded("Response::Auth",    QidFields, data)
parseAttachResponse(data)  == Decoded("Response::Attach",  QidFields, data)
parseOpenResponse(data)    == Decoded("Response::Open",    QidFields \o <<"u32">>, data)
parseCreateResponse(data)  == Decoded("Response::Create",  QidFields \o <<"u32">>, data)
parseReadResponse(data)    == Decoded("Response::Read",    <<"data">>, data)
parseWriteResponse(data)   == Decoded("Response::Write",   <<"u32">>, data)
parseStatResponse(data)    == Decoded("Response::Stat",    <<"u16">> \o StatFields, data)

\* May qids[i] be stored to?  Response::Walk holds Qid qids[16].
QidSlot(i) == i < WalkCap

RECURSIVE WalkLoop(_, _, _, _, _)
\* One turn of the loop, q being the result of decoder >> fcall.qids[i].
\* The decoder writes the fields of qids[i] one by one as it reads them, so
\* qids[i] is stored to as soon as its first byte is there.
WalkStep(i, nqids, r, qids, oob, q) ==
    IF ~q.ok
    THEN PayloadResult(CannedError.NotEnoughData, NoMessage, q.r,
                       oob \/ (Remaining(r) >= 1 /\ ~QidSlot(i)))
    ELSE WalkLoop(i + 1, nqids, q.r,
                  IF QidSlot(i) THEN Append(qids, q.val) ELSE qids,
                  oob \/ ~QidSlot(i))

\* for (i = 0; i < fcall.nqids && result; ++i) result = decoder >> fcall.qids[i];
WalkLoop(i, nqids, r, qids, oob) ==
    IF ~(i < nqids)
    THEN PayloadResult(Ok, Message("Response::Walk", <<nqids, qids>>), r, oob)
    ELSE WalkStep(i, nqids, r, qids, oob, DecodeFields(QidFields, r))

\* the loop over the qids, nqids being the result of decoder >> fcall.nqids
WalkOfCount(nqids) ==
    IF ~nqids.ok
    THEN PayloadResult(CannedError.NotEnoughData, NoMessage, nqids.r, FALSE)
    ELSE WalkLoop(0, nqids.val, nqids.r, <<>>, FALSE)

parseWalkResponse(data) == WalkOfCount(ReadU16(data))

parseVersionRequest(data) == Decoded("Request::Version", <<"u32", "string">>, data)
parseAuthRequest(data)    == Decoded("Request::Auth",    <<"u32", "string", "string">>, data)
parseFlushRequest(data)   == Decoded("Request::Flush",   <<"u16">>, data)
parseAttachRequest(data)  == Decoded("Request::Attach",  <<"u32", "u32", "string", "string">>, data)
parseWalkRequest(data)    == Decoded("Request::Walk",    <<"u32", "u32", "path">>, data)
\* a variant that reads the mode as two bytes
parseOpenRequestWideMode(data) == Decoded("Request::Open", <<"u32", "u16">>, data)

parseOpenRequest(data)    == Decoded("Request::Open",    <<"u32", "u8">>, data)

parseCreateRequest(data)  == Decoded("Request::Create",  <<"u32", "string", "u32", "u8">>, data)
parseReadRequest(data)    == Decoded("Request::Read",    <<"u32", "u64", "u32">>, data)
parseWriteRequest(data)   == Decoded("Request::Write",   <<"u32", "u64", "data">>, data)
parseClunkRequest(data)   == Decoded("Request::Clunk",   <<"u32">>, data)
parseRemoveRequest(data)  == Decoded("Request::Remove",  <<"u32">>, data)
parseStatRequest(data)    == Decoded("Request::StatRequest", <<"u32">>, data)
parseWStatRequest(data)   == Decoded("Request::WStat",   <<"u32">> \o StatFields, data)
parseSessionRequest(data) ==
    Decoded("Request_9P2000E::Session", <<"u8", "u8", "u8", "u8", "u8", "u8", "u8", "u8">>, data)
parseShortReadRequest(data)  == Decoded("Request_9P2000E::SRead",  <<"u32", "path">>, data)
parseShortWriteRequest(data) == Decoded("Request_9P2000E::SWrite", <<"u32", "path", "data">>, data)

----------------------------------------------------------------------------
(* Parser::parseResponse and Parser::parseRequest                          *)

\* a variant without the check for extra data
payloadGuardNoExtra(h, bytesRemaining, negotiated) ==
    LET expectedData == payloadSize(h)
    IN  IF FrameTooBig(h.messageSize, negotiated) THEN CannedError.IllFormedHeader_TooBig
        ELSE IF U32Lt(U32(bytesRemaining), expectedData) THEN CannedError.NotEnoughData
        ELSE Ok

\* a variant that also rejects a frame of exactly the negotiated size
payloadGuardTooBigOrEqual(h, bytesRemaining, negotiated) ==
    LET expectedData == payloadSize(h)
    IN  IF U32Le(negotiated, h.messageSize) THEN CannedError.IllFormedHeader_TooBig
        ELSE IF U32Lt(U32(bytesRemaining), expectedData) THEN CannedError.NotEnoughData
        ELSE IF U32Lt(expectedData, U32(bytesRemaining)) THEN CannedError.MoreThenExpectedData
        ELSE Ok

\* The checks both entry points make before the dispatch on header.type:
\* Ok, or the error of the first check that fails.
payloadGuard(h, bytesRemaining, negotiated) ==
    LET expectedData == payloadSize(h)
    IN  IF FrameTooBig(h.messageSize, negotiated) THEN CannedError.IllFormedHeader_TooBig
        ELSE IF U32Lt(U32(bytesRemaining), expectedData) THEN CannedError.NotEnoughData
        ELSE IF U32Lt(expectedData, U32(bytesRemaining)) THEN CannedError.MoreThenExpectedData
        ELSE Ok

\* a variant without the case labels RSRead and RSWrite
dispatchResponseNoAlias(type, data) ==
    CASE type = MessageType.RError   -> parseErrorResponse(data)
      [] type = MessageType.RVersion -> parseVersionResponse(data)
      [] type = MessageType.RAuth    -> parseAuthResponse(data)
      [] type = MessageType.RAttach  -> parseAttachResponse(data)
      [] type = MessageType.RWalk    -> parseWalkResponse(data)
      [] type = MessageType.ROpen    -> parseOpenResponse(data)
      [] type = MessageType.RCreate  -> parseCreateResponse(data)
      [] type = MessageType.RRead    -> parseReadResponse(data)
      [] type = MessageType.RWrite   -> parseWriteResponse(data)
      [] type = MessageType.RStat    -> parseStatResponse(data)
      [] type = MessageType.RFlush   -> parseNoDataResponse("Response::Flush", data)
      [] type = MessageType.RClunk   -> parseNoDataResponse("Response::Clunk", data)
      [] type = MessageType.RRemove  -> parseNoDataResponse("Response::Remove", data)
      [] type = MessageType.RWStat   -> parseNoDataResponse("Response::WStat", data)
      [] type = MessageType.RSession -> parseNoDataResponse("Response_9P2000E::Session", data)
      [] OTHER -> PayloadResult(CannedError.UnsupportedMessageType, NoMessage, data, FALSE)

\* switch (header.type) of parseResponse
dispatchResponse(type, data) ==
    CASE type = MessageType.RError   -> parseErrorResponse(data)
      [] type = MessageType.RVersion -> parseVersionResponse(data)
      [] type = MessageType.RAuth    -> parseAuthResponse(data)
      [] type = MessageType.RAttach  -> parseAttachResponse(data)
      [] type = MessageType.RWalk    -> parseWalkResponse(data)
      [] type = MessageType.ROpen    -> parseOpenResponse(data)
      [] type = MessageType.RCreate  -> parseCreateResponse(data)
      [] type = MessageType.RSRead   -> parseReadResponse(data)
      [] type = MessageType.RRead    -> parseReadResponse(data)
      [] type = MessageType.RSWrite  -> parseWriteResponse(data)
      [] type = MessageType.RWrite   -> parseWriteResponse(data)
      [] type = MessageType.RStat    -> parseStatResponse(data)
      [] type = MessageType.RFlush   -> parseNoDataResponse("Response::Flush", data)
      [] type = MessageType.RClunk   -> parseNoDataResponse("Response::Clunk", data)
      [] type = MessageType.RRemove  -> parseNoDataResponse("Response::Remove", data)
      [] type = MessageType.RWStat   -> parseNoDataResponse("Response::WStat", data)
      [] type = MessageType.RSession -> parseNoDataResponse("Response_9P2000E::Session", data)
      [] OTHER -> PayloadResult(CannedError.UnsupportedMessageType, NoMessage, data, FALSE)

parseResponse(h, data, negotiated) ==
    LET guard == payloadGuard(h, Remaining(data), negotiated)
    IN  IF guard # Ok THEN PayloadResult(guard, NoMessage, data, FALSE)
        ELSE dispatchResponse(h.type, data)

\* a variant with a case for TError, read like RError
dispatchRequestWithError(type, data) ==
    CASE type = MessageType.TVersion -> parseVersionRequest(data)
      [] type = MessageType.TAuth    -> parseAuthRequest(data)
      [] type = MessageType.TError   -> Decoded("Request::Error", <<"string">>, data)
      [] type = MessageType.TFlush   -> parseFlushRequest(data)
      [] type = MessageType.TAttach  -> parseAttachRequest(data)
      [] type = MessageType.TWalk    -> parseWalkRequest(data)
      [] type = MessageType.TOpen    -> parseOpenRequest(data)
      [] type = MessageType.TCreate  -> parseCreateRequest(data)
      [] type = MessageType.TRead    -> parseReadRequest(data)
      [] type = MessageType.TWrite   -> parseWriteRequest(data)
      [] type = MessageType.TClunk   -> parseClunkRequest(data)
      [] type = MessageType.TRemove  -> parseRemoveRequest(data)
      [] type = MessageType.TStat    -> parseStatRequest(data)
      [] type = MessageType.TWStat   -> parseWStatRequest(data)
      [] type = MessageType.TSession -> parseSessionRequest(data)
      [] type = MessageType.TSRead   -> parseShortReadRequest(data)
      [] type = MessageType.TSWrite  -> parseShortWriteRequest(data)
      [] OTHER -> PayloadResult(CannedError.UnsupportedMessageType, NoMessage, data, FALSE)

\* switch (header.type) of parseRequest
dispatchRequest(type, data) ==
    CASE type = MessageType.TVersion -> parseVersionRequest(data)
      [] type = MessageType.TAuth    -> parseAuthRequest(data)
      [] type = MessageType.TFlush   -> parseFlushRequest(data)
      [] type = MessageType.TAttach  -> parseAttachRequest(data)
      [] type = MessageType.TWalk    -> parseWalkRequest(data)
      [] type = MessageType.TOpen    -> parseOpenRequest(data)
      [] type = MessageType.TCreate  -> parseCreateRequest(data)
      [] type = MessageType.TRead    -> parseReadRequest(data)
      [] type = MessageType.TWrite   -> parseWriteRequest(data)
      [] type = MessageType.TClunk   -> parseClunkRequest(data)
      [] type = MessageType.TRemove  -> parseRemoveRequest(data)
      [] type = MessageType.TStat    -> parseStatRequest(data)
      [] type = MessageType.TWStat   -> parseWStatRequest(data)
      [] type = MessageType.TSession -> parseSessionRequest(data)
      [] type = MessageType.TSRead   -> parseShortReadRequest(data)
      [] type = MessageType.TSWrite  -> parseShortWriteRequest(data)
      [] OTHER -> PayloadResult(CannedError.UnsupportedMessageType, NoMessage, data, FALSE)

parseRequest(h, data, negotiated) ==
    LET guard == payloadGuard(h, Remaining(data), negotiated)
    IN  IF guard # Ok THEN PayloadResult(guard, NoMessage, data, FALSE)
        ELSE dispatchRequest(h.type, data)

----------------------------------------------------------------------------
(* The inputs: the configured sizes, the setter's arguments and the byte   *)
(* buffers handed to the parser                                            *)

\* Parser(maxMassageSize = kMaxMesssageSize, ...): the sizes a parser is built with
ConfiguredSizes == {U32(300), U32(kMaxMesssageSize), U32Max}

\* the arguments maxNegotiatedMessageSize(x) is called with
NegotiatedArgs == {U32(3), U32(256), U32(kMaxMesssageSize), U32(kMaxMesssageSize + 1), U32Max}

\* Parser::NO_TAG = static_cast<Tag>(~0)
NO_TAG == 65535

BytesLE16(n) == <<n % 256, n \div 256>>

BytesLE32(u) == BytesLE16(u[2]) \o BytesLE16(u[1])

\* size[4] type[1] tag[2] payload
Frame(size, type, tag, payload) ==
    BytesLE32(size) \o <<type>> \o BytesLE16(tag) \o payload

\* the bytes 1, 2, ..., n
Counting(n) == [i \in 1..n |-> i]

\* the 13 bytes of the i-th qid of a walk reply
QidBytes(i) == <<128>> \o BytesLE32(U32(i)) \o BytesLE32(U32(100 + i)) \o <<0, 0, 0, 0>>

RECURSIVE QidsBytes(_)
QidsBytes(k) == IF k = 0 THEN <<>> ELSE QidsBytes(k - 1) \o QidBytes(k)

\* declared frame sizes around every limit of the header checks
DeclaredSizes ==
    {U32(0), U32(5), U32(6), U32(7), U32(8), U32(256), U32(257), U32(4096),
     U32(kMaxMesssageSize), U32(kMaxMesssageSize + 1), U32Max}

\* type bytes inside, at the edges of and outside the supported codes
TypeBytes ==
    {0, 99, 100, 106, 107, 111, 117, 120, 127, 128, 149, 150, 153, 155, 156, 200, 255}

\* a header and nothing after it
HeaderOnlyInputs == {Frame(s, t, 513, <<>>) : s \in DeclaredSizes, t \in TypeBytes}

\* fewer bytes than a header
TruncatedInputs ==
    {SubSeq(Frame(U32(7), MessageType.TVersion, NO_TAG, <<>>), 1, n) : n \in 0..6}
      \cup {SubSeq(Frame(U32(5), 255, 0, <<>>), 1, n) : n \in 0..6}

\* frames whose payload is shorter than, as long as or longer than declared
ShortTypes ==
    {MessageType.TError, MessageType.TFlush, MessageType.RFlush, MessageType.RWrite,
     MessageType.TClunk, 128}

ShortInputs ==
    {Frame(U32(headerSize + n), t, NO_TAG, Counting(m)) :
        n \in 0..MaxPayload, m \in 0..MaxPayload, t \in ShortTypes}

\* RWalk frames: nqids announced, k qids and e further bytes carried
WalkCounts == {0, 2} \cup (WalkCap - 1 .. WalkCap + MaxWalkExtra)

WalkInputs ==
    {Frame(U32(headerSize + 2 + 13 * k + e), MessageType.RWalk, 7,
           BytesLE16(nq) \o QidsBytes(k) \o Counting(e)) :
        nq \in WalkCounts, k \in WalkCounts, e \in {0, 5}}

\* two frames back to back in one buffer
TwoFrameInputs ==
    {Frame(U32(11), MessageType.TClunk, 1, Counting(4))
        \o Frame(U32(7), MessageType.RFlush, 2, <<>>)}

\* a frame without payload for every code the header parse lets through
EveryCodeInputs ==
    {Frame(U32(headerSize), t, 1, <<>>) :
        t \in MessageType.beginSupportedMessageCode .. MessageType.endSupportedMessageCode - 1}

\* the same payloads under RRead, RSRead, RWrite and RSWrite: a u32 n and k
\* further bytes
AliasInputs ==
    {Frame(U32(headerSize + 4 + k), t, 3, BytesLE32(U32(n)) \o Counting(k)) :
        t \in {MessageType.RRead, MessageType.RSRead, MessageType.RWrite, MessageType.RSWrite},
        n \in 0..2, k \in 0..2}

Inputs == HeaderOnlyInputs \cup TruncatedInputs \cup ShortInputs \cup WalkInputs
            \cup TwoFrameInputs \cup EveryCodeInputs \cup AliasInputs

\* The headers a caller builds itself with makeHeaderWithPayload, for a
\* cursor over payload bytes alone.  headerSize() + (2^32 - 4) wraps to a
\* messageSize of 3, headerSize() + (2^32 - 2) to a messageSize of 5.
BuiltPayloadSizes == {U32(4), U32Sub(U32(0), U32(4)), U32Sub(U32(0), U32(2))}

BuiltTypes == {MessageType.TClunk, MessageType.RWrite}

BuiltHeaders ==
    {makeHeaderWithPayload(t, NO_TAG, p) : t \in BuiltTypes, p \in BuiltPayloadSizes}

PayloadInputs == {Counting(m) : m \in 0..MaxPayload}

\* what the caller starts with: a buffer to parse from its first byte, or
\* payload bytes and a header of its own
Cases ==
    {[data |-> b, header |-> [held |-> FALSE, h |-> NoHeader]] : b \in Inputs}
      \cup {[data |-> b, header |-> [held |-> TRUE, h |-> h]] :
                b \in PayloadInputs, h \in BuiltHeaders}

----------------------------------------------------------------------------
(* The Encoder: what the writers append for a field of each wire type      *)

\* eight bytes of a uint64 kept as four 16-bit parts, least significant first
BytesLE64(v) == BytesLE16(v[4]) \o BytesLE16(v[3]) \o BytesLE16(v[2]) \o BytesLE16(v[1])

RECURSIVE EncodeEach(_, _)
\* every element of vs encoded as `kind`, one after the other
EncodeEach(kind, vs) ==
    IF vs = <<>> THEN <<>>
    ELSE (CASE kind = "string" -> BytesLE16(Len(Head(vs))) \o Head(vs)
            [] kind = "qid"    -> <<Head(vs)[1]>> \o BytesLE32(Head(vs)[2]) \o BytesLE64(Head(vs)[3]))
         \o EncodeEach(kind, Tail(vs))

\* encoder << one field of the given wire type
EncodeField(kind, v) ==
    CASE kind = "u8"     -> <<v>>
      [] kind = "u16"    -> BytesLE16(v)
      [] kind = "u32"    -> BytesLE32(v)
      [] kind = "u64"    -> BytesLE64(v)
      [] kind = "string" -> BytesLE16(Len(v)) \o v
      [] kind = "data"   -> BytesLE32(U32(Len(v))) \o v
      [] kind = "path"   -> BytesLE16(Len(v)) \o EncodeEach("string", v)
      [] kind = "qids"   -> EncodeEach("qid", v)

RECURSIVE EncodeFields(_, _)
\* encoder << a << b << ...
EncodeFields(kinds, values) ==
    IF kinds = <<>> THEN <<>>
    ELSE EncodeField(Head(kinds), Head(values)) \o EncodeFields(Tail(kinds), Tail(values))

\* encoder << header: size[4] type[1] tag[2]
EncodeHeader(h) == BytesLE32(h.messageSize) \o <<h.type>> \o BytesLE16(h.tag)

\* the bytes of dst with the bytes of src written over them from offset at on
Overwrite(dst, at, src) ==
    [i \in 1..Len(dst) |-> IF i > at /\ i <= at + Len(src) THEN src[i - at] ELSE dst[i]]

----------------------------------------------------------------------------
(* Stat records and the DirListingWriter                                   *)

\* the sum of the lengths of the strings name, uid, gid, muid
StringBytes(stat) == Len(stat[11]) + Len(stat[12]) + Len(stat[13]) + Len(stat[14])

\* DirListingWriter::sizeStat: the bytes of the record that follow its size
\* field: type dev qid mode atime mtime length and four strings with their
\* length prefixes
sizeStat(stat) == 2 + 4 + 13 + 4 + 4 + 4 + 8 + (4 * 2 + StringBytes(stat))

\* a Stat as the sequence of its fields, in the order of StatFields
StatOf(size, id, name, uid, gid, muid) ==
    <<size, 1, U32(2), 128, U32(id), <<0, 0, 0, 64 + id>>, U32(420), U32(0), U32(0),
      <<0, 0, 0, 4096>>, name, uid, gid, muid>>

\* stat.size = DirListingWriter::sizeStat(stat)
Sized(stat) == [stat EXCEPT ![1] = sizeStat(stat)]

\* operator == (Qid, Qid): path, version, type
QidEquals(lhs, rhs) ==
    /\ lhs[6] = rhs[6]
    /\ lhs[5] = rhs[5]
    /\ lhs[4] = rhs[4]

\* operator == (Stat, Stat): atime, dev, gid, length, mode, mtime, name, qid,
\* size, type, uid, in the order the operator compares them
StatEquals(lhs, rhs) ==
    /\ lhs[8] = rhs[8]
    /\ lhs[3] = rhs[3]
    /\ lhs[13] = rhs[13]
    /\ lhs[10] = rhs[10]
    /\ lhs[7] = rhs[7]
    /\ lhs[9] = rhs[9]
    /\ lhs[11] = rhs[11]
    /\ QidEquals(lhs, rhs)
    /\ lhs[1] = rhs[1]
    /\ lhs[2] = rhs[2]
    /\ lhs[12] = rhs[12]

\* DirListingWriter(dest, inCount, inOffset): offset{inOffset}, count{inCount},
\* _bytesTraversed{0}, _bytesEncoded{0}
DirListingWriterSwapped(inCount, inOffset) ==
    [offset |-> inCount, count |-> inOffset, bytesTraversed |-> 0, bytesEncoded |-> 0]

\* a variant that starts the count of encoded bytes at the offset
DirListingWriterEncodedFromOffset(inCount, inOffset) ==
    [offset |-> inOffset, count |-> inCount, bytesTraversed |-> 0,
     bytesEncoded |-> inOffset]

DirListingWriterFromStart(inCount, inOffset) ==
    [offset |-> 0, count |-> inCount, bytesTraversed |-> 0, bytesEncoded |-> 0]

DirListingWriterToEnd(inCount, inOffset) ==
    [offset |-> inOffset, count |-> inOffset + inCount, bytesTraversed |-> 0,
     bytesEncoded |-> 0]

DirListingWriter(inCount, inOffset) ==
    [offset |-> inOffset, count |-> inCount, bytesTraversed |-> 0, bytesEncoded |-> 0]

\* the outcome of one encode(stat): the writer after it, the bytes appended
\* to dest and the value returned
Encoded(w, bytes, more) == [w |-> w, bytes |-> bytes, more |-> more]

\* the record is passed over: counted as traversed, nothing appended
Skipped(w, L) == Encoded([w EXCEPT !.bytesTraversed = @ + L], <<>>, TRUE)

\* DirListingWriter::encode(stat), L being the encoded length 2 + stat.size
encodeOfLength(w, stat, L) ==
    IF w.bytesTraversed + L <= w.offset THEN Skipped(w, L)
    ELSE IF w.bytesTraversed < w.offset THEN Skipped(w, L)
    ELSE IF w.bytesEncoded + L > w.count THEN Encoded(w, <<>>, FALSE)
    ELSE Encoded([w EXCEPT !.bytesTraversed = @ + L, !.bytesEncoded = @ + L],
                 EncodeFields(StatFields, stat), TRUE)

encode(w, stat) == encodeOfLength(w, stat, 2 + stat[1])

----------------------------------------------------------------------------
(* The messages the writers are asked to build                             *)

\* Parser::PROTOCOL_VERSION "9P2000.e" and UNKNOWN_PROTOCOL_VERSION "unknown"
PROTOCOL_VERSION == <<57, 80, 50, 48, 48, 48, 46, 101>>

UNKNOWN_PROTOCOL_VERSION == <<117, 110, 107, 110, 111, 119, 110>>

\* the entries of a listing still to hand to the DirListingWriter
MaxEntries == 3

\* a message to build: its type and tag, the variant it is with the values of
\* its fields, the wire type of each field, and the directory entries to
\* append to it through a DirListingWriter (asked: the count and offset of
\* the read)
Plan(type, tag, kind, kinds, fields) ==
    [type |-> type, tag |-> tag, msg |-> Message(kind, fields), kinds |-> kinds,
     entries |-> <<>>, asked |-> [count |-> 0, offset |-> 0]]

Fid == <<1, 2>>

Offset64 == <<0, 1, 0, 513>>

Name(id, n) == [i \in 1..n |-> 64 + id]

Qid1 == <<128, U32(1), <<0, 0, 0, 100>>>>

Qid2 == <<0, U32(2), <<0, 0, 0, 200>>>>

\* a Stat with its size set by sizeStat
Stat1 == Sized(StatOf(0, 1, Name(1, 4), Name(2, 4), Name(3, 6), Name(4, 4)))

RequestPlans ==
    { Plan(MessageType.TVersion, NO_TAG, "Request::Version", <<"u32", "string">>,
           <<U32(kMaxMesssageSize), PROTOCOL_VERSION>>),
      Plan(MessageType.TAuth, 1, "Request::Auth", <<"u32", "string", "string">>,
           <<Fid, Name(1, 3), Name(2, 0)>>),
      Plan(MessageType.TFlush, 2, "Request::Flush", <<"u16">>, <<513>>),
      Plan(MessageType.TAttach, 3, "Request::Attach", <<"u32", "u32", "string", "string">>,
           <<Fid, U32Max, Name(1, 3), Name(2, 1)>>),
      Plan(MessageType.TWalk, 4, "Request::Walk", <<"u32", "u32", "path">>,
           <<Fid, U32(3), <<Name(1, 2), Name(2, 3)>>>>),
      Plan(MessageType.TOpen, 5, "Request::Open", <<"u32", "u8">>, <<Fid, 18>>),
      Plan(MessageType.TCreate, 6, "Request::Create", <<"u32", "string", "u32", "u8">>,
           <<Fid, Name(1, 2), U32(420), 1>>),
      Plan(MessageType.TRead, 7, "Request::Read", <<"u32", "u64", "u32">>,
           <<Fid, Offset64, U32(4096)>>),
      Plan(MessageType.TWrite, 8, "Request::Write", <<"u32", "u64", "data">>,
           <<Fid, Offset64, Counting(3)>>),
      Plan(MessageType.TClunk, 9, "Request::Clunk", <<"u32">>, <<Fid>>),
      Plan(MessageType.TRemove, 10, "Request::Remove", <<"u32">>, <<Fid>>),
      Plan(MessageType.TStat, 11, "Request::StatRequest", <<"u32">>, <<Fid>>),
      Plan(MessageType.TWStat, 12, "Request::WStat", <<"u32">> \o StatFields, <<Fid>> \o Stat1),
      Plan(MessageType.TSession, 13, "Request_9P2000E::Session",
           <<"u8", "u8", "u8", "u8", "u8", "u8", "u8", "u8">>, Counting(8)),
      Plan(MessageType.TSRead, 14, "Request_9P2000E::SRead", <<"u32", "path">>,
           <<Fid, <<Name(1, 1)>>>>),
      Plan(MessageType.TSWrite, 15, "Request_9P2000E::SWrite", <<"u32", "path", "data">>,
           <<Fid, <<Name(1, 1), Name(2, 2)>>, Counting(2)>>) }

ResponsePlans ==
    { Plan(MessageType.RVersion, NO_TAG, "Response::Version", <<"u32", "string">>,
           <<U32(kMaxMesssageSize), PROTOCOL_VERSION>>),
      Plan(MessageType.RAuth, 1, "Response::Auth", QidFields, Qid1),
      Plan(MessageType.RAttach, 3, "Response::Attach", QidFields, Qid2),
      Plan(MessageType.RError, 4, "Response::Error", <<"string">>, <<Name(5, 5)>>),
      Plan(MessageType.RFlush, 2, "Response::Flush", <<>>, <<>>),
      Plan(MessageType.RWalk, 7, "Response::Walk", <<"u16", "qids">>, <<2, <<Qid1, Qid2>>>>),
      Plan(MessageType.RWalk, 7, "Response::Walk", <<"u16", "qids">>, <<0, <<>>>>),
      Plan(MessageType.ROpen, 5, "Response::Open", QidFields \o <<"u32">>, Qid1 \o <<U32(4096)>>),
      Plan(MessageType.RCreate, 6, "Response::Create", QidFields \o <<"u32">>,
           Qid2 \o <<U32(0)>>),
      Plan(MessageType.RRead, 7, "Response::Read", <<"data">>, <<Counting(5)>>),
      Plan(MessageType.RSRead, 14, "Response::Read", <<"data">>, <<Counting(2)>>),
      Plan(MessageType.RWrite, 8, "Response::Write", <<"u32">>, <<U32(70000)>>),
      Plan(MessageType.RSWrite, 15, "Response::Write", <<"u32">>, <<U32(2)>>),
      Plan(MessageType.RClunk, 9, "Response::Clunk", <<>>, <<>>),
      Plan(MessageType.RRemove, 10, "Response::Remove", <<>>, <<>>),
      Plan(MessageType.RStat, 11, "Response::Stat", <<"u16">> \o StatFields, <<0>> \o Stat1),
      Plan(MessageType.RWStat, 12, "Response::WStat", <<>>, <<>>),
      Plan(MessageType.RSession, 13, "Response_9P2000E::Session", <<>>, <<>>) }

\* directory entries of encoded lengths 50, 60 and 70
DirEntries ==
    { Sized(StatOf(0, 1, Name(1, 1), <<>>, <<>>, <<>>)),
      Sized(StatOf(0, 2, Name(2, 5), Name(2, 3), Name(2, 3), <<>>)),
      Sized(StatOf(0, 3, Name(3, 9), Name(3, 4), Name(3, 4), Name(3, 4))) }

\* listings: up to MaxEntries entries, each at most once, in any order
Listings ==
    {l \in UNION {[1..n -> DirEntries] : n \in 0..MaxEntries} :
        \A i, j \in 1..Len(l) : l[i] = l[j] => i = j}

\* the offset and count of the read a listing answers
ReadOffsets == {0, 50, 55, 110, 200}

ReadCounts == {0, 59, 60, 130, 4096}

\* ResponseWriter.read(MemoryView{}) followed by a DirListingWriter over the
\* same buffer
ListingPlans ==
    {[Plan(MessageType.RRead, 1, "Response::Read", <<"data">>, <<<<>>>>)
        EXCEPT !.entries = l, !.asked = [count |-> c, offset |-> o]] :
        l \in Listings, c \in ReadCounts, o \in ReadOffsets}

Plans == RequestPlans \cup ResponsePlans \cup ListingPlans

----------------------------------------------------------------------------
(* The state machine: one parser, one cursor over one input buffer         *)

\* the record of a call: what was called, with what, and what came back
Call(op, status, arg, ret, before, hdr, msg, oob) ==
    [op |-> op, status |-> status, arg |-> arg, ret |-> ret, before |-> before,
     hdr |-> hdr, msg |-> msg, oob |-> oob]

NoReader == WrapMemory(<<>>)

NoCall == Call("none", Ok, <<0, 0>>, <<0, 0>>, NoReader, NoHeader, NoMessage, FALSE)

\* the exception Solace::assertIndexInRange raises
IndexOutOfRange == "IndexOutOfRange"

\* the process was stopped by a store outside an object
Aborted == "Aborted"

Running == call.status # Aborted

\* no message is being built
NoWriter ==
    [open |-> FALSE, built |-> FALSE, start |-> 0, pos |-> 0, header |-> NoHeader,
     plan |-> Plan(0, 0, "none", <<>>, <<>>), next |-> 0, appended |-> 0]

\* a DirListingWriter with the entries to feed it, those fed so far, what the
\* last encode returned, and whether encode was called again after a stop
Listing(w, entries) ==
    [w |-> w, entries |-> entries, fed |-> <<>>, last |-> "none", afterStop |-> FALSE]

NoListing == Listing(DirListingWriter(0, 0), <<>>)

\* no two Stat values were compared yet
NoComparison == [done |-> FALSE, lhs |-> <<>>, rhs |-> <<>>, equal |-> FALSE]

\* the versions setNegotiatedVersion is called with
Versions == {PROTOCOL_VERSION, UNKNOWN_PROTOCOL_VERSION}

Init ==
    /\ maxMassageSize \in ConfiguredSizes
    /\ maxNegotiatedMessageSize = maxMassageSize
    /\ negotiatedVersion = PROTOCOL_VERSION
    /\ \E c \in Cases :
         /\ reader = WrapMemory(c.data)
         /\ header = c.header
    /\ parseCalls = 0
    /\ call = NoCall
    /\ buffer = <<>>
    /\ writer = NoWriter
    /\ listing = NoListing
    /\ compared = NoComparison

\* proc.setNegotiatedVersion(version)
SetNegotiatedVersion(version) ==
    /\ Running
    /\ negotiatedVersion' = version
    /\ UNCHANGED <<maxMassageSize, maxNegotiatedMessageSize, reader, header, parseCalls, call>>
    /\ UNCHANGED building
    /\ UNCHANGED compared

\* what a call of the setter with argument x leaves, s being its outcome
NegotiateReturn(x, s) ==
    /\ maxNegotiatedMessageSize' = s.value
    /\ call' = Call("maxNegotiatedMessageSize",
                    IF s.raised THEN IndexOutOfRange ELSE Ok,
                    x, IF s.raised THEN <<0, 0>> ELSE s.value,
                    NoReader, NoHeader, NoMessage, FALSE)

\* proc.maxNegotiatedMessageSize(x)
Negotiate(x) ==
    /\ Running
    /\ NegotiateReturn(x, setMaxNegotiatedMessageSize(x, maxMassageSize,
                                                      maxNegotiatedMessageSize))
    /\ UNCHANGED <<maxMassageSize, negotiatedVersion, reader, header, parseCalls>>
    /\ UNCHANGED building
    /\ UNCHANGED compared

\* what parseMessageHeader leaves, res being its result: the cursor moved,
\* and the header in the caller's hands when the call succeeded
HeaderReturn(res) ==
    /\ reader' = res.reader
    /\ header' = [held |-> res.status = Ok, h |-> res.header]
    /\ call' = Call("parseMessageHeader", res.status, <<0, 0>>, <<0, 0>>,
                    reader, res.header, NoMessage, FALSE)

\* proc.parseMessageHeader(reader)
ParseMessageHeader ==
    /\ Running
    /\ parseCalls < MaxParseCalls
    /\ parseCalls' = parseCalls + 1
    /\ HeaderReturn(parseMessageHeader(reader, maxNegotiatedMessageSize))
    /\ UNCHANGED negotiation
    /\ UNCHANGED building
    /\ UNCHANGED compared

\* What a payload parse leaves, res being its result.  A store past qids[15]
\* is undefined behaviour: the call may come back as if the array were
\* longer, or the process may be stopped.
PayloadReturn(op, res) ==
    \E status \in IF res.oob THEN {res.status, Aborted} ELSE {res.status} :
        /\ reader' = res.reader
        /\ call' = Call(op, status, <<0, 0>>, <<0, 0>>, reader, header.h,
                        IF status = Aborted THEN NoMessage ELSE res.msg, res.oob)

\* a variant that takes the size of the frame it parsed as the negotiated size
ParseRequestAdoptingSize ==
    /\ Running
    /\ header.held
    /\ parseCalls < MaxParseCalls
    /\ parseCalls' = parseCalls + 1
    /\ PayloadReturn("parseRequest", parseRequest(header.h, reader, maxNegotiatedMessageSize))
    /\ maxNegotiatedMessageSize' = U32Min(header.h.messageSize, maxNegotiatedMessageSize)
    /\ UNCHANGED <<maxMassageSize, negotiatedVersion, header>>
    /\ UNCHANGED building
    /\ UNCHANGED compared

\* proc.parseRequest(header, reader)
ParseRequest ==
    /\ Running
    /\ header.held
    /\ parseCalls < MaxParseCalls
    /\ parseCalls' = parseCalls + 1
    /\ PayloadReturn("parseRequest", parseRequest(header.h, reader, maxNegotiatedMessageSize))
    /\ UNCHANGED <<negotiation, header>>
    /\ UNCHANGED building
    /\ UNCHANGED compared

\* proc.parseResponse(header, reader)
ParseResponse ==
    /\ Running
    /\ header.held
    /\ parseCalls < MaxParseCalls
    /\ parseCalls' = parseCalls + 1
    /\ PayloadReturn("parseResponse", parseResponse(header.h, reader, maxNegotiatedMessageSize))
    /\ UNCHANGED <<negotiation, header>>
    /\ UNCHANGED building
    /\ UNCHANGED compared

Next ==
    \/ \E x \in NegotiatedArgs : Negotiate(x)
    \/ \E v \in Versions : SetNegotiatedVersion(v)
    \/ ParseMessageHeader
    \/ ParseRequest
    \/ ParseResponse

Spec == Init /\ [][Next]_vars

----------------------------------------------------------------------------
(* The writers: a message is built in the buffer, finalised, and the bytes *)
(* are handed to the parser                                                *)

\* the sizes the parser of the receiving side is built with
WriterSizes == {U32(64), U32(kMaxMesssageSize)}

\* what the buffer holds before the message: nothing, or an earlier frame
Prefixes == {<<>>, Frame(U32(headerSize), MessageType.RFlush, 2, <<>>)}

\* the size a header carries until the message is finalised
ProvisionalSizes == {U32(0), U32Max}

\* a variant that takes the position after the header was written
TypedWriterPastHeader(pos, h) == [pos |-> pos + headerSize, header |-> h]

\* TypedWriter(buffer, pos, header): _pos{pos}, _header{header}
TypedWriter(pos, h) == [pos |-> pos, header |-> h]

WriterInit ==
    /\ maxMassageSize \in WriterSizes
    /\ maxNegotiatedMessageSize = maxMassageSize
    /\ negotiatedVersion = PROTOCOL_VERSION
    /\ reader = NoReader
    /\ header = [held |-> FALSE, h |-> NoHeader]
    /\ parseCalls = 0
    /\ call = NoCall
    /\ buffer \in Prefixes
    /\ \E p \in Plans :
         /\ writer = [NoWriter EXCEPT !.plan = p]
         /\ listing = Listing(DirListingWriter(p.asked.count, p.asked.offset), p.entries)
    /\ compared = NoComparison

\* what the start of a message leaves, tw being the TypedWriter made for it
BeginReturn(tw) ==
    /\ buffer' = buffer \o EncodeHeader(tw.header)
    /\ writer' = [writer EXCEPT !.open = TRUE, !.start = Len(buffer),
                                !.pos = tw.pos, !.header = tw.header]

\* the writer is made: the header is written with a provisional size and the
\* position it starts at is kept
Begin ==
    /\ ~writer.open
    /\ ~writer.built
    /\ \E size \in ProvisionalSizes :
         BeginReturn(TypedWriter(Len(buffer),
                                 MessageHeader(size, writer.plan.type, writer.plan.tag)))
    /\ UNCHANGED <<negotiation, reader, header, parseCalls, call, listing, compared>>

\* what appending the bytes of one field leaves
AppendReturn(bytes) ==
    /\ buffer' = buffer \o bytes
    /\ writer' = [writer EXCEPT !.next = @ + 1, !.appended = @ + Len(bytes)]

\* encoder << the next field of the message
AppendField ==
    /\ writer.open
    /\ writer.next < Len(writer.plan.kinds)
    /\ AppendReturn(EncodeField(writer.plan.kinds[writer.next + 1],
                                writer.plan.msg.fields[writer.next + 1]))
    /\ UNCHANGED <<negotiation, reader, header, parseCalls, call, listing, compared>>

\* what one call of encode leaves, e being its outcome
EncodeReturn(e) ==
    /\ buffer' = buffer \o e.bytes
    /\ writer' = [writer EXCEPT !.appended = @ + Len(e.bytes)]
    /\ listing' = [listing EXCEPT
                     !.w = e.w,
                     !.entries = Tail(@),
                     !.fed = Append(@, Head(listing.entries)),
                     !.last = IF e.more THEN "continue" ELSE "stop",
                     !.afterStop = @ \/ listing.last = "stop"]

\* writer.encode(stat) with the next entry of the listing
Encode ==
    /\ writer.open
    /\ writer.next = Len(writer.plan.kinds)
    /\ listing.entries # <<>>
    /\ EncodeReturn(encode(listing.w, Head(listing.entries)))
    /\ UNCHANGED <<negotiation, reader, header, parseCalls, call, compared>>

\* what build() leaves, size being current position - header start: the size
\* field of the header is written over, and the caller reads the buffer back
\* from its first byte (flip(), then ByteReader{buf.viewRemaining()})
BuildReturn(size) ==
    /\ buffer' = Overwrite(buffer, writer.pos, BytesLE32(size))
    /\ writer' = [writer EXCEPT !.open = FALSE, !.built = TRUE,
                                !.header = [@ EXCEPT !.messageSize = size]]
    /\ reader' = WrapMemory(Overwrite(buffer, writer.pos, BytesLE32(size)))

\* responseWriter.build()
Build ==
    /\ writer.open
    /\ BuildReturn(U32(Len(buffer) - writer.pos))
    /\ UNCHANGED <<negotiation, header, parseCalls, call, listing, compared>>

WriterNext ==
    \/ Begin
    \/ AppendField
    \/ Encode
    \/ Build
    \/ (writer.built /\ ParseMessageHeader)
    \/ (writer.built /\ ParseRequest)
    \/ (writer.built /\ ParseResponse)

WriterSpec == WriterInit /\ [][WriterNext]_vars

----------------------------------------------------------------------------
(* Stat values compared with operator ==                                   *)

\* The Stat values compared: one Stat, and for every field (the three
\* fields of the qid included) the Stat that differs from it in that field
\* alone.
Stats ==
    LET other == <<0, 2, U32(3), 0, U32(9), <<0, 0, 0, 7>>, U32(511), U32(1), U32(2),
                   <<0, 0, 0, 1>>, Name(5, 2), Name(6, 2), Name(7, 2), Name(8, 2)>>
    IN  {Stat1} \cup {[Stat1 EXCEPT ![i] = other[i]] : i \in 1..Len(StatFields)}

StatInit ==
    /\ maxMassageSize = U32(kMaxMesssageSize)
    /\ maxNegotiatedMessageSize = maxMassageSize
    /\ negotiatedVersion = PROTOCOL_VERSION
    /\ reader = NoReader
    /\ header = [held |-> FALSE, h |-> NoHeader]
    /\ parseCalls = 0
    /\ call = NoCall
    /\ buffer = <<>>
    /\ writer = NoWriter
    /\ listing = NoListing
    /\ compared = NoComparison

\* lhs == rhs
Compare(lhs, rhs) ==
    /\ compared' = [done |-> TRUE, lhs |-> lhs, rhs |-> rhs,
                    equal |-> StatEquals(lhs, rhs)]
    /\ UNCHANGED <<negotiation, reader, header, parseCalls, call>>
    /\ UNCHANGED building

StatNext == \E lhs, rhs \in Stats : Compare(lhs, rhs)

StatSpec == StatInit /\ [][StatNext]_vars

----------------------------------------------------------------------------
(* What the properties below read off the last call                        *)

HeaderCall == call.op = "parseMessageHeader"

PayloadCall == call.op \in {"parseRequest", "parseResponse"}

SetterCall == call.op = "maxNegotiatedMessageSize"

\* bytes the cursor held when the call was made
Available == Remaining(call.before)

\* the bytes of the buffer from the cursor on, as the call found them
Wire(i) == call.before.buf[call.before.pos + i]

\* the size a frame declares: its first four bytes, least significant first
DeclaredSize == <<Wire(3) + 256 * Wire(4), Wire(1) + 256 * Wire(2)>>

\* the type byte of a frame
DeclaredType == Wire(5)

\* the tag of a frame: bytes 5 and 6, least significant first
DeclaredTag == Wire(6) + 256 * Wire(7)

\* a full header is there and its declared size passes both size checks
SizeAccepted ==
    /\ HeaderCall
    /\ Available >= headerSize
    /\ U32Le(U32(headerSize), DeclaredSize)
    /\ U32Le(DeclaredSize, maxNegotiatedMessageSize)

----------------------------------------------------------------------------
(* C1 *)

\* C1: parseMessageHeader, given at least 7 bytes and a declared size s with
\* 7 <= s <= negotiated msize, returns UnsupportedMessageType for every type
\* byte t with t < 100, or 128 <= t <= 149, or t > 155, or t = 106.
C1_TypeGuard ==
    (SizeAccepted /\ ( \/ DeclaredType < 100
                       \/ (DeclaredType > 127 /\ DeclaredType < 150)
                       \/ DeclaredType > 155
                       \/ DeclaredType = 106 ))
        => call.status = CannedError.UnsupportedMessageType

----------------------------------------------------------------------------
(* C2 *)

\* the nqids field of the payload the call was given
DeclaredQids == Wire(1) + 256 * Wire(2)

\* parseResponse was given an RWalk frame that passes the checks made before
\* the dispatch and announces more than 16 qids
WalkOverCap ==
    /\ call.op = "parseResponse"
    /\ call.hdr.type = MessageType.RWalk
    /\ U32Le(call.hdr.messageSize, maxNegotiatedMessageSize)
    /\ payloadSize(call.hdr) = U32(Available)
    /\ Available >= 2
    /\ DeclaredQids > WalkCap

\* C2: parseResponse on an RWalk frame whose nqids is greater than 16 returns
\* an error and never stores a qid at an index >= 16 of Response::Walk::qids.
C2_WalkBound ==
    WalkOverCap => (call.status # Ok /\ call.status # Aborted /\ ~call.oob)

----------------------------------------------------------------------------
(* C3 *)

\* C3: maxNegotiatedMessageSize(x) returns min(x, configured msize), leaves
\* the negotiated msize equal to that value, and never fails.
C3_SetterClamps ==
    SetterCall =>
        /\ call.status = Ok
        /\ call.ret = U32Min(call.arg, maxMassageSize)
        /\ maxNegotiatedMessageSize = U32Min(call.arg, maxMassageSize)

----------------------------------------------------------------------------
(* C4 *)

\* C4: in every reachable state the negotiated msize is <= the configured
\* msize, and no step changes the configured msize.
C4_NegotiatedCap ==
    /\ [](U32Le(maxNegotiatedMessageSize, maxMassageSize))
    /\ [][maxMassageSize' = maxMassageSize]_vars

\* a parse call made after the setter lowered the negotiated msize
C4_Witness ==
    /\ PayloadCall
    /\ U32Lt(maxNegotiatedMessageSize, maxMassageSize)

----------------------------------------------------------------------------
(* C5 *)

\* C5: with at least 7 bytes and a declared size s >= 7, parseMessageHeader
\* returns TooBig if and only if s is greater than the negotiated msize of
\* the moment.
C5_TooBigIff ==
    (HeaderCall /\ Available >= headerSize /\ U32Le(U32(headerSize), DeclaredSize))
        => ( call.status = CannedError.IllFormedHeader_TooBig
               <=> U32Lt(maxNegotiatedMessageSize, DeclaredSize) )

\* negotiated msize set to 256, declared size 4096: TooBig
C5_Witness ==
    /\ HeaderCall
    /\ Available >= headerSize
    /\ maxNegotiatedMessageSize = U32(256)
    /\ maxMassageSize # U32(256)
    /\ DeclaredSize = U32(4096)
    /\ call.status = CannedError.IllFormedHeader_TooBig

----------------------------------------------------------------------------
(* C6 *)

\* C6: with at least 7 bytes and a declared size < 7, parseMessageHeader
\* returns FrameTooShort whatever the type, the tag and the negotiated msize
\* are; the checks come in the order IllFormedHeader, FrameTooShort, TooBig,
\* UnsupportedMessageType and the first that fails decides the error.
C6_FrameTooShortFirst ==
    HeaderCall =>
        /\ (Available >= headerSize /\ U32Lt(DeclaredSize, U32(headerSize)))
              => call.status = CannedError.IllFormedHeader_FrameTooShort
        /\ call.status = CannedError.IllFormedHeader_FrameTooShort
              => Available >= headerSize
        /\ call.status = CannedError.IllFormedHeader_TooBig
              => (Available >= headerSize /\ U32Le(U32(headerSize), DeclaredSize))
        /\ ( /\ Available >= headerSize
             /\ U32Le(U32(headerSize), DeclaredSize)
             /\ U32Lt(maxNegotiatedMessageSize, DeclaredSize) )
              => call.status = CannedError.IllFormedHeader_TooBig
        /\ call.status = CannedError.UnsupportedMessageType
              => SizeAccepted

\* declared size 5 with the negotiated msize lowered to 3: FrameTooShort, not TooBig
C6_Witness ==
    /\ HeaderCall
    /\ Available >= headerSize
    /\ DeclaredSize = U32(5)
    /\ maxNegotiatedMessageSize = U32(3)
    /\ call.status = CannedError.IllFormedHeader_FrameTooShort

----------------------------------------------------------------------------
(* C7 *)

\* C7: parseMessageHeader on fewer than 7 remaining bytes returns
\* IllFormedHeader, whatever the bytes and the negotiated msize are.
C7_HeaderGuard ==
    (HeaderCall /\ Available < headerSize) => call.status = CannedError.IllFormedHeader

\* six bytes that would otherwise start a valid frame
C7_Witness ==
    /\ HeaderCall
    /\ Available = 6
    /\ DeclaredSize = U32(headerSize)
    /\ call.status = CannedError.IllFormedHeader

----------------------------------------------------------------------------
(* C8 *)

\* C8: whenever parseMessageHeader succeeds, the cursor has advanced by
\* exactly 7 bytes and the header has 7 <= messageSize <= negotiated msize,
\* with messageSize, type and tag the little-endian values of bytes 0-3, 4
\* and 5-6.
C8_HeaderOk ==
    (HeaderCall /\ call.status = Ok) =>
        /\ reader.buf = call.before.buf
        /\ reader.pos = call.before.pos + 7
        /\ U32Le(U32(7), call.hdr.messageSize)
        /\ U32Le(call.hdr.messageSize, maxNegotiatedMessageSize)
        /\ call.hdr.messageSize = DeclaredSize
        /\ call.hdr.type = DeclaredType
        /\ call.hdr.tag = DeclaredTag
        /\ header = [held |-> TRUE, h |-> call.hdr]

\* 00 10 00 00 | 64 | 01 02 parsed: size 4096, TVersion, tag 0x0201
C8_Witness ==
    /\ HeaderCall
    /\ call.status = Ok
    /\ call.hdr = MessageHeader(U32(4096), MessageType.TVersion, 513)

----------------------------------------------------------------------------
(* C9 *)

\* C9: for every message type, parseRequest and parseResponse return TooBig
\* when header.size > negotiated msize and otherwise NotEnoughData when the
\* cursor holds fewer than size - 7 bytes and MoreThenExpectedData when it
\* holds more (size - 7 in the 32-bit arithmetic of payloadSize()); these
\* checks read nothing from the cursor.
C9_PayloadGuards ==
    PayloadCall =>
        LET expected == U32Sub(call.hdr.messageSize, U32(7))
            tooBig == U32Lt(maxNegotiatedMessageSize, call.hdr.messageSize)
            fewer == U32Lt(U32(Available), expected)
            more == U32Lt(expected, U32(Available))
        IN  /\ tooBig => call.status = CannedError.IllFormedHeader_TooBig
            /\ (~tooBig /\ fewer) => call.status = CannedError.NotEnoughData
            /\ (~tooBig /\ more) => call.status = CannedError.MoreThenExpectedData
            /\ (tooBig \/ fewer \/ more) => reader = call.before
            /\ call.status \in {CannedError.IllFormedHeader_TooBig,
                                CannedError.MoreThenExpectedData}
                  => (tooBig \/ more)

\* two frames back to back: after the first header, the payload parse finds
\* the second frame behind the payload and returns MoreThenExpectedData
C9_Witness ==
    /\ PayloadCall
    /\ call.before.buf \in TwoFrameInputs
    /\ call.before.pos = headerSize
    /\ call.hdr.type = MessageType.TClunk
    /\ call.status = CannedError.MoreThenExpectedData

----------------------------------------------------------------------------
(* C10 *)

\* the codes of the message table: 100..127 and 150..155
RecognisedCodes == (100..127) \cup (150..155)

\* C10: parseMessageHeader does not look at how many payload bytes follow:
\* with exactly 7 bytes, a recognised type and a declared size in
\* [7, negotiated msize] it succeeds; the missing payload is reported only by
\* parseRequest/parseResponse, as NotEnoughData.
C10_PayloadDeferred ==
    /\ (SizeAccepted /\ Available = headerSize /\ DeclaredType \in RecognisedCodes)
          => call.status = Ok
    /\ ( /\ PayloadCall
         /\ Available = 0
         /\ U32Lt(U32(headerSize), call.hdr.messageSize)
         /\ U32Le(call.hdr.messageSize, maxNegotiatedMessageSize) )
          => call.status = CannedError.NotEnoughData

\* a 7-byte buffer declaring 4096 bytes: the header was accepted, and the
\* payload parse that follows reports NotEnoughData
C10_Witness ==
    /\ PayloadCall
    /\ Len(call.before.buf) = headerSize
    /\ call.before.pos = headerSize
    /\ header.h = call.hdr
    /\ call.hdr.messageSize = U32(4096)
    /\ call.status = CannedError.NotEnoughData

----------------------------------------------------------------------------
(* What the properties of the writers read off the state                   *)

\* the read the listing answers
Asked == writer.plan.asked

\* the encoded length of a stat record: the bytes the encoder writes for it
RecordLength(stat) == Len(EncodeFields(StatFields, stat))

\* the bytes appended to the buffer behind the fields of the message itself
ListingOutput ==
    SubSeq(buffer,
           writer.start + headerSize
             + Len(EncodeFields(writer.plan.kinds, writer.plan.msg.fields)) + 1,
           Len(buffer))

RECURSIVE StartOf(_)
\* where the i-th entry fed starts in the listing as a whole
StartOf(i) == IF i = 1 THEN 0 ELSE StartOf(i - 1) + RecordLength(listing.fed[i - 1])

\* the entries that start at or behind the offset asked for
AtOrPastOffset == {i \in 1..Len(listing.fed) : StartOf(i) >= Asked.offset}

\* the first of them: the record boundary the window is aligned to
WindowStart ==
    StartOf(CHOOSE i \in AtOrPastOffset : \A j \in AtOrPastOffset : i <= j)

\* the full extent of the i-th entry lies within the aligned window
InWindow(i) ==
    /\ i \in AtOrPastOffset
    /\ StartOf(i) + RecordLength(listing.fed[i]) <= WindowStart + Asked.count

RECURSIVE WindowBytes(_)
\* the encodings of the entries 1..n that lie within the window, in order
WindowBytes(n) ==
    IF n = 0 THEN <<>>
    ELSE WindowBytes(n - 1)
           \o (IF InWindow(n) THEN EncodeFields(StatFields, listing.fed[n]) ELSE <<>>)

\* the step is a call of encode
EncodeStep == Len(listing'.fed) = Len(listing.fed) + 1

\* the entry the next call of encode is given, and its encoded length
NextLength == RecordLength(Head(listing.entries))

----------------------------------------------------------------------------
(* C11 *)

\* C11: for entries fed in order to DirListingWriter.encode, with no call
\* made after a stop, and any (offset, count), the bytes appended to the
\* output are the concatenation, in order, of exactly the entries whose full
\* extent lies within [a, a + count), a being the start of the first entry
\* that starts at or behind offset; no entry is emitted in part or twice.
C11_DirectoryWindow ==
    (writer.next = Len(writer.plan.kinds) /\ ~listing.afterStop)
        => ListingOutput = WindowBytes(Len(listing.fed))

\* offset 55, count 130, entries of 60, 50, 70 bytes: the first straddles
\* the offset and is passed over, the two behind it are emitted
C11_Witness ==
    /\ Asked = [count |-> 130, offset |-> 55]
    /\ Len(listing.fed) = 3
    /\ RecordLength(listing.fed[1]) = 60
    /\ RecordLength(listing.fed[2]) = 50
    /\ Len(ListingOutput) = 120
    /\ ListingOutput = EncodeFields(StatFields, listing.fed[2])
                         \o EncodeFields(StatFields, listing.fed[3])

----------------------------------------------------------------------------
(* C12 *)

\* C12: a call of encode with bytesTraversed < offset < bytesTraversed + L
\* emits nothing: bytesTraversed grows by L, bytesEncoded and the output are
\* unchanged and the call returns continue.
C12_NoSplit ==
    [][ ( /\ EncodeStep
          /\ listing.w.bytesTraversed < Asked.offset
          /\ Asked.offset < listing.w.bytesTraversed + NextLength )
        => ( /\ listing'.w.bytesTraversed = listing.w.bytesTraversed + NextLength
             /\ listing'.w.bytesEncoded = listing.w.bytesEncoded
             /\ buffer' = buffer
             /\ listing'.last = "continue" ) ]_vars

\* offset 55 and a first entry of 60 bytes: passed over whole
C12_Witness ==
    /\ Asked.offset = 55
    /\ Len(listing.fed) = 1
    /\ RecordLength(listing.fed[1]) = 60
    /\ listing.w.bytesTraversed = 60
    /\ listing.w.bytesEncoded = 0
    /\ ListingOutput = <<>>
    /\ listing.last = "continue"

----------------------------------------------------------------------------
(* C13 *)

\* the entries fed have the encoded lengths 50, 60, 70
FedLengths506070 ==
    /\ Len(listing.fed) = 3
    /\ RecordLength(listing.fed[1]) = 50
    /\ RecordLength(listing.fed[2]) = 60
    /\ RecordLength(listing.fed[3]) = 70

\* C13: a call of encode for an entry at or behind the offset with
\* bytesEncoded + L > count returns stop and leaves the output,
\* bytesTraversed and bytesEncoded as they were; entries of 50, 60, 70 bytes
\* with offset 50 and count 60 emit exactly the second entry and end with
\* bytesTraversed = 110 and bytesEncoded = 60.
C13_StopLeavesAll ==
    /\ [][ ( /\ EncodeStep
             /\ listing.w.bytesTraversed >= Asked.offset
             /\ listing.w.bytesEncoded + NextLength > Asked.count )
           => ( /\ listing'.last = "stop"
                /\ buffer' = buffer
                /\ listing'.w.bytesTraversed = listing.w.bytesTraversed
                /\ listing'.w.bytesEncoded = listing.w.bytesEncoded ) ]_vars
    /\ []( (Asked = [count |-> 60, offset |-> 50] /\ FedLengths506070)
            => ( /\ ListingOutput = EncodeFields(StatFields, listing.fed[2])
                 /\ listing.w.bytesTraversed = 110
                 /\ listing.w.bytesEncoded = 60 ) )

\* the three entries were fed with offset 50 and count 60, the third stopped
C13_Witness ==
    /\ Asked = [count |-> 60, offset |-> 50]
    /\ FedLengths506070
    /\ listing.last = "stop"
    /\ Len(ListingOutput) = 60
    /\ listing.w.bytesTraversed = 110

----------------------------------------------------------------------------
(* C14 *)

\* the message built is a Read response started with empty data, starting at
\* the first byte of the buffer, with every field of its own appended
ReadStartedEmpty ==
    /\ writer.built
    /\ writer.start = 0
    /\ writer.plan.type = MessageType.RRead
    /\ writer.plan.kinds = <<"data">>
    /\ writer.next = 1
    /\ writer.plan.msg.fields[1] = <<>>

\* the bytes built are no more than the parser's msize
Fits == U32Le(U32(Len(buffer)), maxNegotiatedMessageSize)

\* C14: a Read response started with empty data, with stat records appended
\* through DirListingWriter.encode (offset 0) and finalised with build(),
\* passes parseMessageHeader and parseResponse, decodes to the Read variant,
\* and the decoded data length equals DirListingWriter.bytesEncoded().
C14_ListingReadBack ==
    (ReadStartedEmpty /\ Asked.offset = 0 /\ Fits) =>
        /\ (HeaderCall /\ call.before.pos = 0) => call.status = Ok
        /\ (call.op = "parseResponse" /\ call.before.pos = headerSize) =>
              /\ call.status = Ok
              /\ call.msg.kind = "Response::Read"
              /\ Len(call.msg.fields[1]) = listing.w.bytesEncoded

----------------------------------------------------------------------------
(* C15 *)

\* the size field of the message built: the four bytes at its header start
BuiltSize ==
    <<buffer[writer.start + 3] + 256 * buffer[writer.start + 4],
      buffer[writer.start + 1] + 256 * buffer[writer.start + 2]>>

\* C15: after build() the size field at the header offset of the message is
\* current position - header start, the number of bytes written for the
\* message, which is 7 + the payload bytes appended, whatever was appended.
C15_FrameSize ==
    writer.built =>
        /\ BuiltSize = U32(Len(buffer) - writer.start)
        /\ BuiltSize = U32(headerSize + writer.appended)

\* an RWalk with two qids, tag 7: size 7 + 2 + 2 * 13 = 35, payload starts 02 00
C15_Witness ==
    /\ writer.built
    /\ writer.start = 0
    /\ writer.plan.type = MessageType.RWalk
    /\ writer.plan.tag = 7
    /\ writer.next = 2
    /\ writer.plan.msg.fields[1] = 2
    /\ BuiltSize = U32(35)
    /\ SubSeq(buffer, 1, 9) = <<35, 0, 0, 0, 111, 7, 0, 2, 0>>

----------------------------------------------------------------------------
(* C16 *)

\* the codes parseRequest has a case for
RequestCodes ==
    {MessageType.TVersion, MessageType.TAuth, MessageType.TFlush, MessageType.TAttach,
     MessageType.TWalk, MessageType.TOpen, MessageType.TCreate, MessageType.TRead,
     MessageType.TWrite, MessageType.TClunk, MessageType.TRemove, MessageType.TStat,
     MessageType.TWStat, MessageType.TSession, MessageType.TSRead, MessageType.TSWrite}

\* the codes parseResponse has a case for
ResponseCodes ==
    {MessageType.RVersion, MessageType.RAuth, MessageType.RAttach, MessageType.RError,
     MessageType.RFlush, MessageType.RWalk, MessageType.ROpen, MessageType.RCreate,
     MessageType.RRead, MessageType.RWrite, MessageType.RClunk, MessageType.RRemove,
     MessageType.RStat, MessageType.RWStat, MessageType.RSession, MessageType.RSRead,
     MessageType.RSWrite}

\* the message was built whole, from the first byte of the buffer, and
\* nothing but its fields was appended
BuiltWhole ==
    /\ writer.built
    /\ writer.start = 0
    /\ writer.next = Len(writer.plan.kinds)
    /\ Len(listing.fed) = 0

\* the parse function of the side that receives the message built
ReceivingOp ==
    IF writer.plan.type \in RequestCodes THEN "parseRequest" ELSE "parseResponse"

\* C16: for every request and response variant whose encoding fits the msize
\* of the parser, parseMessageHeader and then parseRequest (parseResponse)
\* on the encoded bytes succeed and give a variant of the same kind with
\* every field equal to the original; the header gives the size, type and
\* tag of the message.
C16_RoundTrip ==
    (BuiltWhole /\ Fits) =>
        /\ (HeaderCall /\ call.before.pos = 0) =>
              /\ call.status = Ok
              /\ call.hdr = MessageHeader(U32(Len(buffer)), writer.plan.type,
                                          writer.plan.tag)
        /\ (call.op = ReceivingOp /\ call.before.pos = headerSize) =>
              /\ call.status = Ok
              /\ call.msg = writer.plan.msg
              /\ Remaining(reader) = 0

\* TVersion{8192, "9P2000.e"}, tag 0xFFFF: the 21 bytes of the wire and back
C16_Witness ==
    /\ BuiltWhole
    /\ buffer = <<21, 0, 0, 0, 100, 255, 255, 0, 32, 0, 0, 8, 0,
                  57, 80, 50, 48, 48, 48, 46, 101>>
    /\ call.op = "parseRequest"
    /\ call.status = Ok
    /\ call.msg = Message("Request::Version", <<U32(kMaxMesssageSize), PROTOCOL_VERSION>>)

----------------------------------------------------------------------------
(* C17 *)

\* the header and the cursor given to the payload parse pass the checks made
\* before the dispatch
GuardPassed ==
    /\ PayloadCall
    /\ U32Le(call.hdr.messageSize, maxNegotiatedMessageSize)
    /\ payloadSize(call.hdr) = U32(Available)

\* the first four bytes of the payload, least significant first
PayloadU32 == <<Wire(3) + 256 * Wire(4), Wire(1) + 256 * Wire(2)>>

\* C17: parseResponse gives the Read variant for RRead and for RSRead, and
\* the Write variant for RWrite and for RSWrite; what it returns is decided
\* by the payload bytes alone: data of the announced length (NotEnoughData
\* when the payload is shorter), resp. the count.
C17_Aliases ==
    (GuardPassed /\ call.op = "parseResponse") =>
        /\ call.hdr.type \in {MessageType.RRead, MessageType.RSRead} =>
              IF Available >= 4 /\ U32Le(PayloadU32, U32(Available - 4))
              THEN /\ call.status = Ok
                   /\ call.msg = Message("Response::Read",
                                         <<SubSeq(call.before.buf, call.before.pos + 5,
                                                  call.before.pos + 4 + PayloadU32[2])>>)
              ELSE call.status = CannedError.NotEnoughData
        /\ call.hdr.type \in {MessageType.RWrite, MessageType.RSWrite} =>
              IF Available >= 4
              THEN call.status = Ok /\ call.msg = Message("Response::Write", <<PayloadU32>>)
              ELSE call.status = CannedError.NotEnoughData

\* an RSRead frame carrying two bytes of data, decoded to the Read variant
C17_Witness ==
    /\ GuardPassed
    /\ call.op = "parseResponse"
    /\ call.hdr.type = MessageType.RSRead
    /\ call.status = Ok
    /\ call.msg = Message("Response::Read", <<Counting(2)>>)

----------------------------------------------------------------------------
(* C18 *)

\* C18: a call of parseMessageHeader, parseRequest or parseResponse leaves
\* the configured msize, the negotiated msize and the negotiated version as
\* they were, whether it succeeds or fails; a step that changes one of them
\* is a call of maxNegotiatedMessageSize(x) or of setNegotiatedVersion.
C18_ParseKeepsNegotiation ==
    [][ /\ (parseCalls' # parseCalls) => UNCHANGED negotiation
        /\ (negotiation' # negotiation) =>
              /\ UNCHANGED <<reader, header, parseCalls>>
              /\ \/ call'.op = "maxNegotiatedMessageSize"
                 \/ call' = call ]_vars

\* a payload parse that succeeded on a parser negotiated down to 256 bytes
\* and to the version "unknown"
C18_Witness ==
    /\ PayloadCall
    /\ call.status = Ok
    /\ maxNegotiatedMessageSize = U32(256)
    /\ maxMassageSize = U32(kMaxMesssageSize)
    /\ negotiatedVersion = UNKNOWN_PROTOCOL_VERSION

----------------------------------------------------------------------------
(* C19 *)

\* C19: once the checks made before the dispatch pass, parseRequest returns
\* UnsupportedMessageType for every type that is not one of the 16 request
\* codes and parseResponse for every type that is not one of the 17 response
\* codes; each accepts its own codes, the request codes are all even and the
\* response codes all odd, so that routing even types to parseRequest and
\* odd types to parseResponse sends every legal type to the function that
\* has a case for it.
C19_Routing ==
    GuardPassed =>
        /\ (call.op = "parseRequest" /\ call.hdr.type \notin RequestCodes)
              => call.status = CannedError.UnsupportedMessageType
        /\ (call.op = "parseResponse" /\ call.hdr.type \notin ResponseCodes)
              => call.status = CannedError.UnsupportedMessageType
        /\ (call.op = "parseRequest" /\ call.hdr.type \in RequestCodes)
              => (call.status # CannedError.UnsupportedMessageType /\ call.hdr.type % 2 = 0)
        /\ (call.op = "parseResponse" /\ call.hdr.type \in ResponseCodes)
              => (call.status # CannedError.UnsupportedMessageType /\ call.hdr.type % 2 = 1)

\* TError, let through by the header parse, is refused by parseRequest
C19_Witness ==
    /\ GuardPassed
    /\ call.op = "parseRequest"
    /\ call.before.pos = headerSize
    /\ call.hdr.type = MessageType.TError
    /\ call.status = CannedError.UnsupportedMessageType

----------------------------------------------------------------------------
(* C20 *)

\* C20: after a successful parseRequest or parseResponse the cursor has
\* consumed exactly header.size - 7 bytes; a frame whose declared payload is
\* longer than the fields of its message type is not decoded successfully.
C20_ConsumesPayload ==
    (PayloadCall /\ call.status = Ok)
        => U32(reader.pos - call.before.pos) = payloadSize(call.hdr)

----------------------------------------------------------------------------
(* C21 *)

\* a step that is a call of parseMessageHeader which accepted the header
AcceptStep ==
    /\ parseCalls' # parseCalls
    /\ call'.op = "parseMessageHeader"
    /\ call'.status = Ok

\* a step that is a call of parseRequest or parseResponse
PayloadStep ==
    /\ parseCalls' # parseCalls
    /\ call'.op \in {"parseRequest", "parseResponse"}

\* C21: a header parseMessageHeader accepted is not rejected with TooBig by
\* the following parseRequest/parseResponse while the negotiated msize is
\* what it was when the header was accepted, and is rejected with TooBig once
\* the setter has lowered the negotiated msize below header.size.  In steps:
\* the header handed out by an accepting call is no larger than the
\* negotiated msize of that moment; a payload parse returns TooBig exactly
\* when the header it is given is larger than the negotiated msize of the
\* moment of the call; and a payload parse that directly follows the
\* accepting call does not return TooBig.
C21_AcceptedUntilLowered ==
    [][ /\ AcceptStep => U32Le(header'.h.messageSize, maxNegotiatedMessageSize')
        /\ PayloadStep =>
              (call'.status = CannedError.IllFormedHeader_TooBig
                 <=> U32Lt(maxNegotiatedMessageSize, header.h.messageSize))
        /\ (HeaderCall /\ call.status = Ok /\ PayloadStep)
              => call'.status # CannedError.IllFormedHeader_TooBig ]_vars

\* a frame of 4096 bytes was accepted, the setter lowered the negotiated
\* msize to 256, and the payload parse returned TooBig
C21_Witness ==
    /\ PayloadCall
    /\ call.before.pos = headerSize
    /\ call.hdr.messageSize = U32(4096)
    /\ maxNegotiatedMessageSize = U32(256)
    /\ call.status = CannedError.IllFormedHeader_TooBig

----------------------------------------------------------------------------
(* C22 *)

\* a step that is a call of the setter maxNegotiatedMessageSize(x)
SetterStep ==
    /\ call'.op = "maxNegotiatedMessageSize"
    /\ parseCalls' = parseCalls
    /\ negotiatedVersion' = negotiatedVersion

\* the negotiated msize the call with argument x leaves on a parser that was
\* just constructed
OnFreshParser(x) ==
    setMaxNegotiatedMessageSize(x, maxMassageSize, maxMassageSize).value

\* C22: the negotiated msize after maxNegotiatedMessageSize(x) depends on x
\* and the configured msize only, not on the value negotiated before: the
\* call leaves what it leaves on a freshly constructed parser, a second call
\* with the same x changes nothing, and a call with an x up to the
\* configured msize and above the negotiated value raises it to x.
C22_SetterForgetsPrevious ==
    [][ SetterStep =>
          /\ maxNegotiatedMessageSize' = OnFreshParser(call'.arg)
          /\ (SetterCall /\ call.arg = call'.arg)
                => maxNegotiatedMessageSize' = maxNegotiatedMessageSize
          /\ ( /\ U32Le(call'.arg, maxMassageSize)
               /\ U32Lt(maxNegotiatedMessageSize, call'.arg) )
                => maxNegotiatedMessageSize' = call'.arg ]_vars

----------------------------------------------------------------------------
(* C23 *)

\* C23: two Stat values compare equal if and only if every one of the twelve
\* fields size, type, dev, qid, mode, atime, mtime, length, name, uid, gid,
\* muid is equal; two Stats that differ in muid alone compare unequal.
C23_StatEqualityFieldWise ==
    compared.done =>
        (compared.equal <=> \A i \in 1..Len(StatFields) : compared.lhs[i] = compared.rhs[i])

----------------------------------------------------------------------------
(* C24 *)

\* C24: in every state a sequence of DirListingWriter.encode calls reaches,
\* calls made after a stop included, bytesEncoded is at most the count asked
\* for and at most bytesTraversed, the bytes appended to the buffer behind
\* the fields of the message are bytesEncoded many, and no call lowers
\* bytesTraversed or bytesEncoded.
C24_Counters ==
    /\ [] ( /\ listing.w.bytesEncoded <= Asked.count
            /\ listing.w.bytesEncoded <= listing.w.bytesTraversed
            /\ Len(ListingOutput) = listing.w.bytesEncoded )
    /\ [][ /\ listing'.w.bytesTraversed >= listing.w.bytesTraversed
           /\ listing'.w.bytesEncoded >= listing.w.bytesEncoded ]_vars

\* offset 50, count 60: the entry of 50 bytes was skipped, the entry of 70
\* bytes was refused with a stop, and the entry of 60 bytes, fed after the
\* stop, was written
C24_Witness ==
    /\ listing.afterStop
    /\ listing.last = "continue"
    /\ Asked = [count |-> 60, offset |-> 50]
    /\ listing.w.bytesTraversed = 110
    /\ listing.w.bytesEncoded = 60
    /\ Len(ListingOutput) = 60

----------------------------------------------------------------------------
(* C25 *)

\* the last call was a payload parse given a header with messageSize < 7
ShortHeaderCall ==
    /\ PayloadCall
    /\ U32Lt(call.hdr.messageSize, U32(headerSize))

\* 2^32 - 7 + messageSize, for a messageSize below 7
WrappedPayload == <<HalfWord - 1, HalfWord - headerSize + call.hdr.messageSize[2]>>

\* the call returned before the dispatch on the type: no message, and the
\* cursor where it was
NoDecoderReached ==
    /\ call.msg = NoMessage
    /\ reader = call.before

\* C25 as stated: for a header with messageSize < 7, payloadSize() is
\* 2^32 - 7 + messageSize, and parseRequest/parseResponse given such a header
\* and a cursor with fewer bytes than that return NotEnoughData without
\* reaching a per-type decoder.
C25_ShortHeaderNotEnoughData ==
    ShortHeaderCall =>
        /\ payloadSize(call.hdr) = WrappedPayload
        /\ U32Lt(U32(Available), WrappedPayload)
              => /\ call.status = CannedError.NotEnoughData
                 /\ NoDecoderReached

\* C25, amended: for a header with messageSize < 7, payloadSize() is
\* 2^32 - 7 + messageSize, and parseRequest/parseResponse given such a header
\* and a cursor with fewer bytes than that do not reach a per-type decoder:
\* they return TooBig when messageSize is above the negotiated msize and
\* NotEnoughData otherwise.
C25_ShortHeaderTooBigFirst ==
    ShortHeaderCall =>
        /\ payloadSize(call.hdr) = WrappedPayload
        /\ U32Lt(U32(Available), WrappedPayload)
              => /\ call.status =
                       IF U32Lt(maxNegotiatedMessageSize, call.hdr.messageSize)
                       THEN CannedError.IllFormedHeader_TooBig
                       ELSE CannedError.NotEnoughData
                 /\ NoDecoderReached

\* a header built with a payload size of 2^32 - 2 has messageSize 5; with
\* five bytes behind the cursor the parse returned NotEnoughData
C25_Witness ==
    /\ ShortHeaderCall
    /\ call.hdr.messageSize = U32(5)
    /\ Available = 5
    /\ U32Le(call.hdr.messageSize, maxNegotiatedMessageSize)
    /\ call.status = CannedError.NotEnoughData

====
